---- MODULE Spec2Model ----
(***************************************************************************)
(* State-machine model of epke::Solver (src/src/epke/epke_solver.cpp):     *)
(* construction from a parameter set and a precomputed history, the step   *)
(* loop of solve(), createFineSolver and assembleGlobalOutput.             *)
(*                                                                         *)
(* Abstraction of the arithmetic.  The closed-form real expressions of     *)
(* computeOmega, computeZetaHat, computeA1B1 and computeABC are replaced   *)
(* by Mix, a combination in a residue ring of exactly the operands the     *)
(* code reads, in the order it reads them.  What is kept exactly: which    *)
(* entries are read and written and in which order, the sign of the        *)
(* quadratic's leading coefficient a (it depends on the parameter set      *)
(* only: a = theta*dt*a1/GenTime(n), a1 = gammaD*PowNorm(n)*positive       *)
(* kernel terms), the control flow, and ownership of every buffer.         *)
(*                                                                         *)
(* Failures.  "throw;" in computeABC runs with no active exception, which  *)
(* is std::terminate: the process ends (terminated).  vector::at outside   *)
(* the buffer throws std::out_of_range out of solve().  The constructor    *)
(* copies with operator[]; a precomputed history longer than the grid      *)
(* writes past the buffers, which is undefined: the process either dies or *)
(* runs on with foreign memory overwritten (corrupt).                      *)
(*                                                                         *)
(* solve() is modelled for one call per solver, one action per loop        *)
(* iteration, so that iterations of different solvers interleave.          *)
(***************************************************************************)
EXTENDS Integers, Sequences, FiniteSets, TLC

\* ----------------------------------------------------------------- bounds
MaxSteps == 5        \* largest NumTimeSteps of a single solver's grid
MaxFineSteps == 3    \* largest grid when fine solvers are created
NumPrec == 2         \* number of precursor groups
MaxSolvers == 3      \* the coarse solver and at most two fine solvers
MaxSeed == 2         \* number of distinct precomputed histories per length
ValMod == 997        \* size of the residue ring standing for double values

Prec == 0..(NumPrec - 1)
Min(a, b) == IF a < b THEN a ELSE b

\* --------------------------------------------------------- value abstraction
RECURSIVE MixFrom(_, _, _)
MixFrom(h, xs, i) ==
  IF i > Len(xs) THEN h
  ELSE MixFrom((h * 31 + xs[i] + 1) % ValMod, xs, i + 1)

\* Stands for a closed-form expression over the operands xs.
Mix(xs) == MixFrom(7, xs, 1)

\* ------------------------------------------------------------- data model
\* std::vector<double>(N): value-initialised, every entry 0.0
ZeroBins(N) == [n \in 0..(N - 1) |-> 0]

\* EPKEParameters as the solver uses it: getNumTimeSteps, getGammaD,
\* getPowNorm(n).  theta, dt, GenTime and the kernels are positive.
SignPattern(N, m) == [n \in 0..(N - 1) |-> IF n < m THEN 1 ELSE -1]

ParamsOn(N) ==
  { [N |-> N, gammaD |-> g, powNorm |-> SignPattern(N, m)] :
      g \in {-1, 0, 1}, m \in 0..N }

ParamSets == UNION { ParamsOn(N) : N \in 1..MaxSteps }

\* EPKEOutput: a history prefix of len entries.
SeedHistory(len, base) ==
  [ len   |-> len,
    power |-> [n \in 0..(len - 1) |-> 100 * base + n + 1],
    rho   |-> [n \in 0..(len - 1) |-> 100 * base + 20 + n],
    conc  |-> [k \in Prec |-> [n \in 0..(len - 1) |-> 100 * base + 40 + 10 * k + n]] ]

NoOutput == [len |-> 0, power |-> ZeroBins(0), rho |-> ZeroBins(0),
             conc |-> [k \in Prec |-> ZeroBins(0)]]

\* An out-of-bounds operator[] write in the constructor (lines 46, 52, 53).
Overflows(params, precomp) == precomp.len > params.N

\* Last index the constructor's copy loops touch inside the buffers.
CopyBound(params, precomp) == Min(precomp.len, params.N)

\* Solver::Solver(params, precomp): buffers of NumTimeSteps zeros, then the
\* first precomp.getNumTimeSteps() entries copied from precomp.
Construct(params, precomp) ==
  LET N == params.N
      c == CopyBound(params, precomp)
  IN [ params   |-> params,
       precomp  |-> precomp,
       power    |-> [n \in 0..(N - 1) |-> IF n < c THEN precomp.power[n] ELSE 0],
       rho      |-> [n \in 0..(N - 1) |-> IF n < c THEN precomp.rho[n] ELSE 0],
       conc     |-> [k \in Prec |->
                      [n \in 0..(N - 1) |-> IF n < c THEN precomp.conc[k][n] ELSE 0]],
       omega    |-> [k \in Prec |-> 0],
       zeta_hat |-> [k \in Prec |-> 0],
       fine     |-> <<>>,
       status   |-> "Idle",
       n        |-> 0,
       result   |-> NoOutput,
       \* history of the run, kept for the properties
       visited  |-> <<>>,
       wpower   |-> ZeroBins(N),
       wrho     |-> ZeroBins(N),
       wconc    |-> [k \in Prec |-> ZeroBins(N)],
       lastStep |-> -1,
       lastKind |-> "none",
       \* what createFineSolver was called with (0, -1 for the coarse solver)
       \* and the parent's entries at that index at the time of the call
       parent   |-> 0,
       index    |-> -1,
       produced |-> FALSE,
       seen     |-> [power |-> 0, rho |-> 0, conc |-> [k \in Prec |-> 0]] ]

VARIABLES solvers, terminated, corrupt, returned, assembled
vars == <<solvers, terminated, corrupt, returned, assembled>>

Ids == 1..Len(solvers)
Coarse == 1


\* ------------------------------------------------------------ step indices
\* Mutant of PrevPrev: the n < 2 branch is missing.
PrevPrevNoEdge(n) == n - 2

\* The "two steps back" index of computeZetaHat (lines 102-110).
PrevPrev(n) == IF n < 2 THEN n - 1 ELSE n - 2

\* The "two steps back" index of computeA1B1 (lines 134-138).
HPrevPrev(n) == IF n < 2 THEN n - 1 ELSE n - 2

\* Mutant of WriteIndex: the assignment lands one entry behind.
WriteIndexBehind(n) == n - 1

\* The index solve() assigns in iteration n (lines 228, 238, 244).
WriteIndex(n) == n

\* Mutant of NextIndex: the loop advances by two.
NextIndexSkip(n) == n + 2

\* The loop increment of solve() (line 219).
NextIndex(n) == n + 1

\* -------------------------------------------------- history reads of a step
\* Each read is [grp, buf, k, idx]: grp is the iteration of computePower's
\* loop over the groups it belongs to (-1 before the loop, NumPrec after it).
Rd(grp, buf, k, idx) == [grp |-> grp, buf |-> buf, k |-> k, idx |-> idx]

\* solve(), lines 223-225
AlphaReads(n) ==
  IF n > 1 THEN << Rd(-1, "power", 0, n - 1), Rd(-1, "power", 0, n - 2) >>
  ELSE << >>

\* computeZetaHat (lines 104/108, 112, 113) and line 166 of computePower
ZetaHatReads(k, n) ==
  << Rd(k, "power", 0, PrevPrev(n)), Rd(k, "conc", k, n - 1),
     Rd(k, "power", 0, n - 1), Rd(k, "conc", k, n - 1) >>

RECURSIVE GroupReads(_, _)
GroupReads(k, n) ==
  IF k >= NumPrec THEN << >> ELSE ZetaHatReads(k, n) \o GroupReads(k + 1, n)

\* computeA1B1 (lines 135/137, 143, 143, 145)
A1B1Reads(n) ==
  << Rd(NumPrec, "power", 0, HPrevPrev(n)), Rd(NumPrec, "rho", 0, n - 1),
     Rd(NumPrec, "power", 0, 0), Rd(NumPrec, "power", 0, n - 1) >>

\* computeABC (lines 186, 188, 190)
ABCReads(n) ==
  << Rd(NumPrec, "rho", 0, n - 1), Rd(NumPrec, "power", 0, n - 1),
     Rd(NumPrec, "power", 0, n - 1) >>

\* Every history read made before power[n] is assigned, in program order.
PreReads(n) == AlphaReads(n) \o GroupReads(0, n) \o A1B1Reads(n) \o ABCReads(n)

\* vector::at: the first read whose index is outside 0..N-1 throws.
RECURSIVE FirstBad(_, _, _)
FirstBad(rs, N, i) ==
  IF i > Len(rs) THEN 0
  ELSE IF rs[i].idx < 0 \/ rs[i].idx >= N THEN i
  ELSE FirstBad(rs, N, i + 1)

Acc(op, r) == <<op, r.buf, r.k, r.idx>>
AsLog(rs) == [i \in 1..Len(rs) |-> Acc("R", rs[i])]

\* ------------------------------------------------------ values of a step
At(f, i) == IF i \in DOMAIN f THEN f[i] ELSE 0

\* line 224
AlphaVal(sv, n) ==
  IF n > 1 THEN Mix(<<1, At(sv.power, n - 1), At(sv.power, n - 2)>>) ELSE 0

\* computeOmega: parameters only
OmegaVal(sv, k, n) == Mix(<<2, k, n, sv.params.powNorm[n] + 1>>)

\* computeZetaHat
ZetaHatVal(sv, k, n) ==
  Mix(<<3, k, n, At(sv.conc[k], n - 1), At(sv.power, n - 1),
        At(sv.power, PrevPrev(n))>>)

\* computeA1B1: a1 (lines 140-141) depends on the parameters only
A1(params, n) == params.gammaD * params.powNorm[n]

B1Val(sv, n) ==
  Mix(<<4, n, At(sv.rho, n - 1), At(sv.power, 0), At(sv.power, n - 1),
        At(sv.power, HPrevPrev(n))>>)

\* computeABC line 180: theta, dt and GenTime(n) are positive
ACoef(params, n) == A1(params, n)

\* Mutant of Invalid: a > 0 is not rejected.
InvalidNever(a) == FALSE

\* computeABC lines 192-198: neither root branch applies
Invalid(a) == a > 0

\* lines 164-166
SumVal(tag, f) == Mix(<<tag>> \o [i \in 1..NumPrec |-> f[i - 1]])

\* computeABC lines 181-195 with the sums of computePower
PowerVal(sv, n) ==
  LET alpha == AlphaVal(sv, n)
      om    == [k \in Prec |-> OmegaVal(sv, k, n)]
      zh    == [k \in Prec |-> ZetaHatVal(sv, k, n)]
      tau   == SumVal(11, om)
      shd   == SumVal(12, zh)
      sdp   == SumVal(13, [k \in Prec |-> At(sv.conc[k], n - 1)])
      b     == Mix(<<5, n, B1Val(sv, n), alpha, tau>>)
      c     == Mix(<<6, n, shd, alpha, At(sv.rho, n - 1), At(sv.power, n - 1), sdp>>)
  IN IF ACoef(sv.params, n) < 0 THEN Mix(<<7, b, c>>) ELSE Mix(<<8, b, c>>)

\* line 238
ConcVal(p, om, zh) == Mix(<<9, p, om, zh>>)

\* line 244
RhoVal(a1, p, b1) == Mix(<<10, a1 + 1, p, b1>>)


\* ------------------------------------------------------- one loop iteration
Bump(f, i) == IF i \in DOMAIN f THEN [f EXCEPT ![i] = @ + 1] ELSE f
Put(f, i, v) == IF i \in DOMAIN f THEN [f EXCEPT ![i] = v] ELSE f

\* computeDT(n) reads params.getTime(n-1) (line 74).  For n = 0 that index
\* is outside the grid: the accessor either throws before omega[0] is
\* assigned or yields an unspecified value that ends up in omega[0].
ParamOutcomes(n) == IF n = 0 THEN {"throw", "low", "high"} ELSE {"ok"}

Garbage(u) == IF u = "low" THEN 0 ELSE ValMod - 1

\* A read at position bad of pre threw std::out_of_range out of solve().
\* omega[k] is assigned before computeZetaHat(k) runs (lines 160-161).
Thrown(sv, pre, bad, u) ==
  LET n   == sv.n
      grp == pre[bad].grp
  IN IF u = "throw"
     THEN [sv EXCEPT !.status = "OutOfRange",
                     !.visited = Append(@, n),
                     !.lastStep = n,
                     !.lastKind = "refused"]
     ELSE [sv EXCEPT !.status = "OutOfRange",
                     !.visited = Append(@, n),
                     !.omega = [k \in Prec |->
                                  IF grp >= 0 /\ k <= grp
                                  THEN (IF n = 0 THEN Garbage(u)
                                        ELSE OmegaVal(sv, k, n))
                                  ELSE sv.omega[k]],
                     !.zeta_hat = [k \in Prec |->
                                     IF k < grp THEN ZetaHatVal(sv, k, n)
                                     ELSE sv.zeta_hat[k]],
                     !.lastStep = n,
                     !.lastKind = "thrown"]

\* computeABC found a > 0 and executed "throw;" with no active exception
\* (line 197): the scratch of every group is already overwritten, power[n]
\* is not assigned.
Aborted(sv, pre) ==
  LET n == sv.n
  IN [sv EXCEPT !.status = "Failed",
                !.visited = Append(@, n),
                !.omega = [k \in Prec |-> OmegaVal(sv, k, n)],
                !.zeta_hat = [k \in Prec |-> ZetaHatVal(sv, k, n)],
                !.lastStep = n,
                !.lastKind = "aborted"]

RECURSIVE ConcLog(_, _, _)
ConcLog(k, n, w) ==
  IF k >= NumPrec THEN << >>
  ELSE << <<"R", "power", 0, n>>, <<"W", "conc", k, w>> >> \o ConcLog(k + 1, n, w)

\* A whole iteration of the loop body (lines 220-244).
Completed(sv, pre) ==
  LET n   == sv.n
      w   == WriteIndex(n)
      om  == [k \in Prec |-> OmegaVal(sv, k, n)]
      zh  == [k \in Prec |-> ZetaHatVal(sv, k, n)]
      pw  == Put(sv.power, w, PowerVal(sv, n))
      sv1 == [sv EXCEPT !.power = pw]
      cn  == [k \in Prec |->
                Put(sv.conc[k], w, ConcVal(At(pw, n), om[k], zh[k]))]
      rh  == Put(sv.rho, w, RhoVal(A1(sv.params, n), At(pw, n), B1Val(sv1, n)))
  IN [sv EXCEPT !.power = pw,
                !.conc = cn,
                !.rho = rh,
                !.omega = om,
                !.zeta_hat = zh,
                !.n = NextIndex(n),
                !.visited = Append(@, n),
                !.wpower = Bump(@, w),
                !.wrho = Bump(@, w),
                !.wconc = [k \in Prec |-> Bump(sv.wconc[k], w)],
                !.lastStep = n,
                !.lastKind = "completed"]

\* The history accesses of the solver's latest iteration, in program
\* order: <<"R" or "W", buffer, group, index>>.
LastLog(sv) ==
  LET n   == sv.lastStep
      pre == PreReads(n)
  IN CASE sv.lastKind = "completed" ->
            AsLog(pre) \o << <<"W", "power", 0, WriteIndex(n)>> >>
              \o ConcLog(0, n, WriteIndex(n)) \o AsLog(A1B1Reads(n))
              \o << <<"R", "power", 0, n>>, <<"W", "rho", 0, WriteIndex(n)>> >>
       [] sv.lastKind = "aborted" -> AsLog(pre)
       [] sv.lastKind = "thrown" ->
            AsLog(SubSeq(pre, 1, FirstBad(pre, sv.params.N, 1)))
       [] sv.lastKind = "refused" -> AsLog(AlphaReads(n))
       [] OTHER -> << >>

Iterate(sv, u) ==
  LET pre == PreReads(sv.n)
      bad == FirstBad(pre, sv.params.N, 1)
  IN IF bad > 0 THEN Thrown(sv, pre, bad, u)
     ELSE IF Invalid(ACoef(sv.params, sv.n)) THEN Aborted(sv, pre)
     ELSE Completed(sv, pre)

\* Mutant of Store: the scratch vectors are shared by every solver.
StoreSharedScratch(svs, s, r) ==
  [t \in DOMAIN svs |->
     IF t = s THEN r
     ELSE [svs[t] EXCEPT !.omega = r.omega, !.zeta_hat = r.zeta_hat]]

\* The solver an iteration's writes land in: its own members.
Store(svs, s, r) == [svs EXCEPT ![s] = r]

\* The loop's first index (line 219).
FirstIndex(sv) == sv.precomp.len

\* make_shared<EPKEOutput>(power, rho, concentrations) (line 247)
OutputOf(sv) ==
  [len |-> sv.params.N, power |-> sv.power, rho |-> sv.rho, conc |-> sv.conc]

\* assembleGlobalOutput (lines 68-71): a copy of precomp.
AssembledOf(sv) == sv.precomp

\* ------------------------------------------------ collaborators (not in src)
\* EPKEParameters::interpolate(fine_time): the parameter set on the fine
\* grid; the scalar gammaD carries over, the per-index values are those the
\* fine grid yields.
Interpolate(params, fine) ==
  [N |-> fine.N, gammaD |-> params.gammaD, powNorm |-> fine.powNorm]

\* EPKEOutput::createPrecomputed(i): the prefix of the history up to index i.
CreatePrecomputed(h, i) ==
  LET len == Min(i + 1, h.len)
  IN [ len   |-> len,
       power |-> [n \in 0..(len - 1) |-> h.power[n]],
       rho   |-> [n \in 0..(len - 1) |-> h.rho[n]],
       conc  |-> [k \in Prec |-> [n \in 0..(len - 1) |-> h.conc[k][n]]] ]

\* The fine time grids handed to createFineSolver, by what interpolation
\* onto them yields.
FineGrids ==
  { [N |-> N, powNorm |-> SignPattern(N, m)] :
      N \in 1..MaxFineSteps, m \in {0, MaxFineSteps} }

\* Mutant of RegisterChild: the child is not kept.
RegisterChildLost(fine, id) == fine

\* _fine_solvers.push_back(fine_solver) (line 63)
RegisterChild(fine, id) == Append(fine, id)

\* ------------------------------------------------------------------ state
\* An out-of-bounds write is undefined: the process dies on the spot or
\* runs on with memory outside the buffer overwritten.
OverflowOutcomes(params, precomp) ==
  IF Overflows(params, precomp) THEN {"crash", "silent"} ELSE {"none"}

NoAssembly == [solver |-> 0, out |-> NoOutput, atDone |-> FALSE]

Init ==
  \E params \in ParamSets, len \in 0..(MaxSteps + 1), base \in 1..MaxSeed :
    \E o \in OverflowOutcomes(params, SeedHistory(len, base)) :
      /\ len <= params.N + 1
      /\ solvers = << Construct(params, SeedHistory(len, base)) >>
      /\ terminated = (o = "crash")
      /\ corrupt = (o # "none")
      /\ returned = 0
      /\ assembled = NoAssembly

\* The entries of solver sv at index i, and whether the seed or the step
\* loop has produced them.
EntriesAt(sv, i) ==
  [power |-> sv.power[i], rho |-> sv.rho[i], conc |-> [k \in Prec |-> sv.conc[k][i]]]

Written(sv, i) == i < sv.precomp.len \/ sv.wpower[i] > 0

\* ---------------------------------------------------------------- actions
\* solve() entered: the loop variable is initialised (lines 217-219).
StartSolve(s) ==
  /\ ~terminated
  /\ solvers[s].status = "Idle"
  /\ solvers' = [solvers EXCEPT ![s].status = "Stepping",
                                ![s].n = FirstIndex(solvers[s])]
  /\ UNCHANGED <<terminated, corrupt, returned, assembled>>

\* One iteration of solve()'s loop.
Step(s) ==
  /\ ~terminated
  /\ solvers[s].status = "Stepping"
  /\ solvers[s].n < solvers[s].params.N
  /\ \E u \in ParamOutcomes(solvers[s].n) :
       LET r == Iterate(solvers[s], u)
       IN /\ solvers' = Store(solvers, s, r)
          \* "throw;" without an active exception calls std::terminate
          /\ terminated' = (r.status = "Failed")
  /\ UNCHANGED <<corrupt, returned, assembled>>

\* The loop condition fails: solve() returns the result (line 247).
Finish(s) ==
  /\ ~terminated
  /\ solvers[s].status = "Stepping"
  /\ solvers[s].n >= solvers[s].params.N
  /\ solvers' = [solvers EXCEPT ![s].status = "Done",
                                ![s].result = OutputOf(solvers[s])]
  /\ UNCHANGED <<terminated, corrupt, returned, assembled>>

\* createFineSolver(fine_time, coarse_index), called on the coarse solver.
CreateFineSolver(fine, i) ==
  /\ ~terminated
  /\ Len(solvers) < MaxSolvers
  /\ LET parent  == solvers[Coarse]
         params  == Interpolate(parent.params, fine)
         precomp == CreatePrecomputed(parent.precomp, i)
         id      == Len(solvers) + 1
     IN \E o \in OverflowOutcomes(params, precomp) :
          /\ solvers' = Append([solvers EXCEPT ![Coarse].fine = RegisterChild(@, id)],
                               [Construct(params, precomp) EXCEPT
                                  !.parent = Coarse,
                                  !.index = i,
                                  !.produced = Written(parent, i),
                                  !.seen = EntriesAt(parent, i)])
          /\ terminated' = (o = "crash")
          /\ corrupt' = (corrupt \/ o # "none")
          /\ returned' = id
  /\ UNCHANGED assembled

\* assembleGlobalOutput() on the coarse solver.
AssembleGlobalOutput ==
  /\ ~terminated
  /\ assembled' = [solver |-> Coarse, out |-> AssembledOf(solvers[Coarse]),
                    atDone |-> solvers[Coarse].status = "Done"]
  /\ UNCHANGED <<solvers, terminated, corrupt, returned>>

\* A single solver, over every input.
SoloNext ==
  \/ \E s \in Ids : StartSolve(s)
  \/ \E s \in Ids : Step(s)
  \/ \E s \in Ids : Finish(s)
  \/ AssembleGlobalOutput

Spec == Init /\ [][SoloNext]_vars

\* A well-formed coarse solver with negative feedback gain and positive
\* power normalisation (as in the regression case of the test), and the
\* fine solvers it creates.  assembleGlobalOutput is const and touches no
\* solver; it is left to Spec.
TreeInit ==
  /\ Init
  /\ solvers[Coarse].params.N = MaxFineSteps
  /\ solvers[Coarse].precomp \in { SeedHistory(len, 1) : len \in 1..MaxFineSteps }
  /\ solvers[Coarse].params.gammaD < 0
  /\ \A n \in 0..(MaxFineSteps - 1) : solvers[Coarse].params.powNorm[n] = 1

TreeNext ==
  \/ \E s \in Ids : StartSolve(s)
  \/ \E s \in Ids : Step(s)
  \/ \E s \in Ids : Finish(s)
  \/ \E fine \in FineGrids, i \in 0..(solvers[Coarse].params.N - 1) :
       CreateFineSolver(fine, i)

TreeSpec == TreeInit /\ [][TreeNext]_vars


\* ------------------------------------------------------------- properties
SeedLen(sv) == sv.precomp.len
NSteps(sv) == sv.params.N
WellFormed(sv) == 1 <= SeedLen(sv) /\ SeedLen(sv) <= NSteps(sv)
Range(a, b) == [i \in 1..(IF b >= a THEN b - a + 1 ELSE 0) |-> a + i - 1]
Fresh(sv) == Construct(sv.params, sv.precomp)

\* Iterations of the loop that ran to their end.
DoneSteps(sv) ==
  IF sv.status \in {"Failed", "OutOfRange"} THEN Len(sv.visited) - 1
  ELSE Len(sv.visited)

\* C1: for a solver with 1 <= seedLen <= NumTimeSteps, the entries below
\* seedLen of power, rho and every concentration equal the history
\* provider's values after construction and in every later state of solve(),
\* and the step loop never writes an index below seedLen.
C1_SeedPreserved ==
  \A s \in Ids :
    LET sv == solvers[s]
    IN WellFormed(sv) =>
         \A n \in 0..(SeedLen(sv) - 1) :
           /\ sv.power[n] = sv.precomp.power[n]
           /\ sv.rho[n] = sv.precomp.rho[n]
           /\ sv.wpower[n] = 0
           /\ sv.wrho[n] = 0
           /\ \A k \in Prec : /\ sv.conc[k][n] = sv.precomp.conc[k][n]
                              /\ sv.wconc[k][n] = 0

\* A run that stepped at least twice above a seed of two entries and ended.
C1_Witness ==
  \E s \in Ids :
    /\ SeedLen(solvers[s]) = 2
    /\ solvers[s].status = "Done"
    /\ Len(solvers[s].visited) >= 2

\* C2: the step indices visited are seedLen, seedLen+1, ... in increasing
\* order without gap or repeat; power, rho and every concentration are
\* written exactly once at each index whose iteration ran to its end and
\* nowhere else; Done is reached only with every index up to
\* NumTimeSteps-1 visited.
C2_StepCoverage ==
  \A s \in Ids :
    LET sv == solvers[s]
        written(n) == SeedLen(sv) <= n /\ n < SeedLen(sv) + DoneSteps(sv)
        once(n) == IF written(n) THEN 1 ELSE 0
    IN /\ sv.visited = Range(SeedLen(sv), SeedLen(sv) + Len(sv.visited) - 1)
       /\ \A n \in 0..(NSteps(sv) - 1) :
            /\ sv.wpower[n] = once(n)
            /\ sv.wrho[n] = once(n)
            /\ \A k \in Prec : sv.wconc[k][n] = once(n)
       /\ sv.status = "Done" =>
            sv.visited = Range(SeedLen(sv), NSteps(sv) - 1)

\* A completed run of the longest loop: seed of one entry, longest grid.
C2_Witness ==
  \E s \in Ids :
    /\ solvers[s].status = "Done"
    /\ SeedLen(solvers[s]) = 1
    /\ NSteps(solvers[s]) = MaxSteps

\* C3: an iteration whose leading coefficient a is positive never runs to
\* its end; the solver that met a > 0 at index m is stopped at m, nothing
\* runs after it, the entries at indices >= m hold what construction left
\* there, and no result was returned.
C3_AbortAtInvalidStep ==
  \A s \in Ids :
    LET sv == solvers[s]
        m  == sv.n
    IN /\ \A i \in 1..DoneSteps(sv) : ACoef(sv.params, sv.visited[i]) <= 0
       /\ sv.status = "Failed" =>
            /\ ACoef(sv.params, m) > 0
            /\ sv.visited = Range(SeedLen(sv), m)
            /\ terminated
            /\ ~ ENABLED SoloNext
            /\ sv.result = NoOutput
            /\ \A n \in m..(NSteps(sv) - 1) :
                 /\ sv.power[n] = Fresh(sv).power[n]
                 /\ sv.rho[n] = Fresh(sv).rho[n]
                 /\ \A k \in Prec : sv.conc[k][n] = Fresh(sv).conc[k][n]

\* The failure met at an index the loop reached after completed iterations.
C3_Witness ==
  \E s \in Ids :
    /\ solvers[s].status = "Failed"
    /\ DoneSteps(solvers[s]) >= 1
    /\ solvers[s].n < NSteps(solvers[s]) - 1

\* C8: assembleGlobalOutput on a solver whose loop reached Done returns the
\* solver's own full-length histories.
C8_AssembledCoversGrid ==
  (assembled.solver # 0 /\ assembled.atDone /\ WellFormed(solvers[assembled.solver]))
    => assembled.out = OutputOf(solvers[assembled.solver])

\* C9: a solver whose history prefix is empty or longer than the grid is
\* refused before any stepping: no out-of-bounds write, no iteration entered.
C9_MalformedSurfaced ==
  \A s \in Ids :
    ~ WellFormed(solvers[s]) =>
      /\ ~ corrupt
      /\ solvers[s].visited = << >>
      /\ solvers[s].status \in {"Idle", "MalformedInput"}

\* C10: for a solver with 1 <= seedLen <= NumTimeSteps, every history read
\* of iteration n is at an index in {0, n-2, n-1, n} inside 0..n; a read
\* below n finds an entry the seed or an earlier iteration wrote; index n
\* is read of power only, after power[n] was written in this iteration.
C10_ReadsBehind ==
  \A s \in Ids :
    LET sv  == solvers[s]
        n   == sv.lastStep
        log == LastLog(sv)
        cnt(buf, k, i) == IF buf = "power" THEN sv.wpower[i]
                          ELSE IF buf = "rho" THEN sv.wrho[i]
                          ELSE sv.wconc[k][i]
    IN WellFormed(sv) =>
         \A j \in 1..Len(log) :
           log[j][1] = "R" =>
             LET buf == log[j][2]
                 k   == log[j][3]
                 idx == log[j][4]
             IN /\ idx >= 0
                /\ idx <= n
                /\ idx \in {0, n - 2, n - 1, n}
                /\ idx < n => (idx < SeedLen(sv) \/ cnt(buf, k, idx) >= 1)
                /\ idx = n =>
                     /\ buf = "power"
                     /\ \E j2 \in 1..(j - 1) : log[j2] = <<"W", "power", 0, n>>

\* The loop ran from index 1 (no two-steps-back entry) to the last index.
C10_Witness ==
  \E s \in Ids :
    /\ SeedLen(solvers[s]) = 1
    /\ NSteps(solvers[s]) = MaxSteps
    /\ solvers[s].lastKind = "completed"
    /\ solvers[s].lastStep = MaxSteps - 1


\* A solver run on its own from construction to the end of solve().
RECURSIVE RunAlone(_)
RunAlone(sv) ==
  IF sv.status = "Stepping" /\ sv.n < NSteps(sv)
  THEN RunAlone(Iterate(sv, "ok"))
  ELSE sv

Alone(sv) ==
  RunAlone([Fresh(sv) EXCEPT !.status = "Stepping", !.n = FirstIndex(sv)])

\* C4: a call of createFineSolver whose constructor stays inside its
\* buffers appends exactly one child to the caller's list (the list holds
\* the children in call order), returns that child, runs no iteration of
\* it (its entries from its seedLen on are unwritten) and leaves every
\* existing solver's parameters and buffers as they were.
C4_CreateEffect ==
  [][ (Len(solvers') # Len(solvers) /\ ~ corrupt') =>
        LET id    == Len(solvers) + 1
            child == solvers'[id]
        IN /\ Len(solvers') = id
           /\ solvers'[Coarse].fine = Append(solvers[Coarse].fine, id)
           /\ solvers'[Coarse].fine = Range(2, id)
           /\ returned' = id
           /\ child.status = "Idle"
           /\ child.visited = << >>
           /\ \A n \in SeedLen(child)..(NSteps(child) - 1) :
                /\ child.power[n] = 0 /\ child.wpower[n] = 0
                /\ child.rho[n] = 0 /\ child.wrho[n] = 0
                /\ \A k \in Prec : child.conc[k][n] = 0 /\ child.wconc[k][n] = 0
           /\ \A t \in Ids :
                [solvers'[t] EXCEPT !.fine = solvers[t].fine] = solvers[t]
    ]_vars

\* Two children created, the second while the coarse solver was mid-run.
C4_Witness ==
  /\ Len(solvers) = 3
  /\ ~ corrupt
  /\ solvers[Coarse].fine = <<2, 3>>
  /\ ~ solvers[2].produced
  /\ solvers[3].produced
  /\ solvers[3].index >= SeedLen(solvers[Coarse])

\* C5: the last entry of a (well-formed) fine solver's seed equals the
\* coarse solver's value at the coarse index it was created with, whenever
\* the coarse solver had produced that index, by its seed or by its loop.
C5_SeedFromCoarseHistory ==
  \A c \in Ids :
    LET sv == solvers[c]
        L  == SeedLen(sv)
    IN (sv.parent # 0 /\ sv.produced /\ WellFormed(sv)) =>
         /\ L >= 1
         /\ sv.precomp.power[L - 1] = sv.seen.power
         /\ sv.precomp.rho[L - 1] = sv.seen.rho
         /\ \A k \in Prec : sv.precomp.conc[k][L - 1] = sv.seen.conc[k]

C6_OwnHistories ==
  \A s \in Ids :
    LET sv == solvers[s]
    IN ~ corrupt =>
         /\ sv.status \in {"Done", "Failed"} =>
              /\ sv.power = Alone(sv).power
              /\ sv.rho = Alone(sv).rho
              /\ sv.conc = Alone(sv).conc
         /\ sv.parent # 0 =>
              sv.precomp = CreatePrecomputed(Fresh(solvers[sv.parent]).precomp, sv.index)

C6_StepFrame ==
  \A s \in Ids :
    (~ corrupt /\ solvers'[s].visited # solvers[s].visited) =>
      \A t \in Ids \ {s} : solvers'[t] = solvers[t]

\* C6: an iteration of one solver changes nothing of any other solver
\* (histories, scratch, seed), under every interleaving; a solver that
\* stopped holds the histories it produces when run alone, and a child's
\* seed is the slice taken at its creation.
C6_Isolation == [] C6_OwnHistories /\ [][C6_StepFrame]_vars

\* A child created before the coarse solver produced its index, both then
\* stepping, the child to its end.
C6_Witness ==
  \E c \in Ids :
    /\ ~ corrupt
    /\ solvers[c].parent = Coarse
    /\ ~ solvers[c].produced
    /\ solvers[Coarse].wpower[solvers[c].index] = 1
    /\ solvers[c].status = "Done"
    /\ Len(solvers[c].visited) >= 1

\* C7: the failure of one fine solver leaves every sibling able to take
\* the iterations it still has.
C7_SiblingsUnaffected ==
  \A s \in Ids, t \in Ids :
    ( /\ s # t
      /\ solvers[s].parent = Coarse
      /\ solvers[t].parent = Coarse
      /\ solvers[s].status = "Failed"
      /\ solvers[t].status = "Stepping"
      /\ solvers[t].n < NSteps(solvers[t]) )
    => ENABLED Step(t)

====
